---- MODULE Spec2Model ----
(***************************************************************************)
(* Model of the aoc workspace: the aoclib text input loader                *)
(* (aoclib/src/lib/parser.rs) and the pure puzzle functions of the day     *)
(* crates.  Text is a sequence of one-character strings.  A Rust           *)
(* Result<T, E> is the pair <<"Ok", v>> or <<"Err", <<kind, detail>>>>.    *)
(***************************************************************************)
EXTENDS Integers, Sequences, FiniteSets, TLC

VARIABLES
    file,       \* the file behind the path: [exists, utf8, data]
    pc,         \* position of the caller: idle, read, lines, whole, done
    op,         \* the loader function being called
    conv,       \* the converter (FromStr type) or parser closure supplied
    content,    \* local `content` of the running call
    rest,       \* the part of `content` the lines() iterator has not yielded
    out,        \* the Vec being collected
    result,     \* the value returned by the call
    reads,      \* fs::read_to_string invocations made by the running call
    applied,    \* the texts the converter/parser was invoked on, in order
    lastFailed, \* whether the previous call on this behaviour returned Err
    digits,     \* day03: the bank handed to the function
    k,          \* day03: the number of digits to select
    dpc,        \* day03: position in the function: start, select, done
    position,   \* day03: loop variable of `for position in 0..k`
    start,      \* day03: first index of the next search range
    selected,   \* day03: the Vec `result` of selected digits
    answer,     \* day03: what the function did: <<"return", n>> or <<"panic", _>>
    bank,            \* day03 part 1: the digits handed to the function
    tpc,             \* day03 part 1: position in the function: start, loop, done
    seen,            \* day03 part 1: how many digits `for &digit in digits` has taken
    max_two_digit,   \* day03 part 1: local of that name
    max_first_digit, \* day03 part 1: local of that name
    two_answer,      \* day03 part 1: the value returned
    input,           \* day04: the set `input` part_2 owns and shrinks
    gpc,             \* day04: position in part_2's loop: loop, found, done
    acc,             \* day04: the Vec `acc`, as the set of its elements
    total_removed,   \* day04: local of that name
    initial,         \* day04: the set part_2 was called with
    num,             \* day02: the argument of has_repeating_pattern
    hpc,             \* day02: position in the function: start, chunk, while, done, panic
    chunk_size,      \* day02: loop variable of `for chunk_size in 1..=num_digits / 2`
    first_chunk,     \* day02: local of that name
    temp,            \* day02: local of that name
    pattern          \* day02: the value returned

loaderVars == <<file, pc, op, conv, content, rest, out, result, reads, applied, lastFailed>>

day03Vars == <<digits, k, dpc, position, start, selected, answer>>

twoVars == <<bank, tpc, seen, max_two_digit, max_first_digit, two_answer>>

day04Vars == <<input, gpc, acc, total_removed, initial>>

day02Vars == <<num, hpc, chunk_size, first_chunk, temp, pattern>>

vars == <<loaderVars, day03Vars, twoVars, day04Vars, day02Vars>>

\* what an action of the loader, or of a day's function, leaves alone
notLoader == <<day03Vars, twoVars, day04Vars, day02Vars>>
notDay03 == <<loaderVars, twoVars, day04Vars, day02Vars>>
notTwo == <<loaderVars, day03Vars, day04Vars, day02Vars>>
notDay04 == <<loaderVars, day03Vars, twoVars, day02Vars>>
notDay02 == <<loaderVars, day03Vars, twoVars, day04Vars>>

----------------------------------------------------------------------------
(* Bounds of the model *)

\* longest file content, in characters
MaxLen == 5

\* banks of up to MaxBank digits, each 0..MaxDigit, are all tried
MaxBank == 4
MaxDigit == 3

\* longer banks, up to MaxLongBank digits, are a block of one or two digits
\* repeated, with k at most LongSlack below the length
MaxLongBank == 20
LongSlack == 1

\* day04: the sets tried are the subsets of one position with its eight
\* neighbours, and a GridSide x GridSide grid with up to MaxHoles positions
\* left out
GridSide == 4
MaxHoles == 3

\* day02: the numbers tried are 0..MaxNum, and the numbers of up to PatternLen
\* digits written with the digits 0..PatternDigit
MaxNum == 12312
PatternLen == 6
PatternDigit == 2

----------------------------------------------------------------------------
(* Text *)

LF == "\n"
CR == "\r"

\* the characters files are written with
Alphabet == {"R", "1", LF, CR}

Last(s) == s[Len(s)]
DropLast(s) == SubSeq(s, 1, Len(s) - 1)

(* Result<T, E> *)
Ok(v) == <<"Ok", v>>
Err(kind, detail) == <<"Err", <<kind, detail>>>>
IsOk(r) == r[1] = "Ok"
IsErr(r) == r[1] = "Err"
Unwrap(r) == r[2]
None == <<"None", <<>>>>

----------------------------------------------------------------------------
(* std::fs::read_to_string as the loader uses it *)

NoFile == [exists |-> FALSE, utf8 |-> TRUE, data |-> <<>>]
BadUtf8 == [exists |-> TRUE, utf8 |-> FALSE, data |-> <<>>]
TextFile(d) == [exists |-> TRUE, utf8 |-> TRUE, data |-> d]

\* mutant: a missing file reads as empty text (unwrap_or_default)
ReadToStringDefault(f) ==
    IF ~f.exists \/ ~f.utf8 THEN Ok(<<>>) ELSE Ok(f.data)

ReadToString(f) ==
    IF ~f.exists THEN Err("io::NotFound", <<>>)
    ELSE IF ~f.utf8 THEN Err("io::InvalidData", <<>>)
    ELSE Ok(f.data)

----------------------------------------------------------------------------
(* str::lines(): split_inclusive('\n'), then strip one "\n" and, only if a *)
(* "\n" was stripped, one "\r" before it.                                  *)

FirstLF(s) ==
    IF \E i \in 1..Len(s) : s[i] = LF
    THEN CHOOSE i \in 1..Len(s) : s[i] = LF /\ \A j \in 1..(i - 1) : s[j] # LF
    ELSE 0

\* the next item of split_inclusive('\n') on a non-empty remainder
NextChunk(s) == IF FirstLF(s) = 0 THEN s ELSE SubSeq(s, 1, FirstLF(s))

AfterChunk(s) == SubSeq(s, Len(NextChunk(s)) + 1, Len(s))

\* mutant: the line keeps its terminator
StripTerminatorKeep(chunk) == chunk

StripTerminator(chunk) ==
    IF chunk # <<>> /\ Last(chunk) = LF
    THEN LET l == DropLast(chunk)
         IN  IF l # <<>> /\ Last(l) = CR THEN DropLast(l) ELSE l
    ELSE chunk

\* mutant: an empty content is iterated as one empty line (as split('\n') would)
LinesIterPadded(s) == IF s = <<>> THEN <<LF>> ELSE s

\* content.lines(): the iterator starts with the whole content to yield
LinesIter(s) == s

RECURSIVE Lines(_)
Lines(s) ==
    IF s = <<>> THEN <<>>
    ELSE <<StripTerminator(NextChunk(s))>> \o Lines(AfterChunk(s))

----------------------------------------------------------------------------
(* The converters the callers supply *)

Digits10 == <<"0", "1", "2", "3", "4", "5", "6", "7", "8", "9">>
IsDigit(c) == \E i \in 1..10 : Digits10[i] = c
DigitVal(c) == (CHOOSE i \in 1..10 : Digits10[i] = c) - 1

RECURSIVE DecimalValue(_)
DecimalValue(s) ==
    IF s = <<>> THEN 0 ELSE DecimalValue(DropLast(s)) * 10 + DigitVal(Last(s))

\* <integer>::from_str; texts are at most MaxLen characters, far below the
\* ten digits the overflow kinds need
IntFromStr(s, signed) ==
    IF s = <<>> THEN Err("ParseIntError::Empty", <<>>)
    ELSE IF s \in {<<"+">>, <<"-">>} THEN Err("ParseIntError::InvalidDigit", <<>>)
    ELSE LET negative == signed /\ s[1] = "-"
             body == IF s[1] = "+" \/ negative THEN Tail(s) ELSE s
         IN  IF \E i \in 1..Len(body) : ~IsDigit(body[i])
             THEN Err("ParseIntError::InvalidDigit", <<>>)
             ELSE Ok(IF negative THEN 0 - DecimalValue(body) ELSE DecimalValue(body))

\* Turn::from_str of day01
TurnFromStr(s) ==
    IF s = <<>> THEN Err("Empty string cannot be parsed as Turn", <<>>)
    ELSE LET direction == s[1]
             rotation == IntFromStr(Tail(s), TRUE)
         IN  IF IsErr(rotation)
             THEN Err("Failed to parse rotation amount", <<Unwrap(rotation)[1]>>)
             ELSE IF direction = "R" THEN Ok(<<"Right", Unwrap(rotation)>>)
             ELSE IF direction = "L" THEN Ok(<<"Left", Unwrap(rotation)>>)
             ELSE Err("Invalid turn direction", <<direction>>)

\* the per-line converters: T = String and T = i32 of parse_lines, and the
\* closure day01 hands to parse_lines_with
LineConverters == {"String", "i32", "Turn"}

Convert(c, line) ==
    CASE c = "String" -> Ok(line)
      [] c = "i32" -> IntFromStr(line, TRUE)
      [] c = "Turn" -> TurnFromStr(line)

----------------------------------------------------------------------------
(* The whole-content parsers handed to parse_with *)

\* index of the first occurrence of pat in s, or 0
FindStr(s, pat) ==
    LET at(i) == i + Len(pat) - 1 <= Len(s) /\ SubSeq(s, i, i + Len(pat) - 1) = pat
    IN  IF \E i \in 1..Len(s) : at(i)
        THEN CHOOSE i \in 1..Len(s) : at(i) /\ \A j \in 1..(i - 1) : ~at(j)
        ELSE 0

\* str::split(pat): the pieces between non-overlapping matches, left to right
RECURSIVE SplitStr(_, _)
SplitStr(s, pat) ==
    LET i == FindStr(s, pat)
    IN  IF i = 0 THEN <<s>>
        ELSE <<SubSeq(s, 1, i - 1)>> \o SplitStr(SubSeq(s, i + Len(pat), Len(s)), pat)

Whitespace == {" ", "\t", LF, CR}

RECURSIVE TrimStart(_)
TrimStart(s) == IF s # <<>> /\ s[1] \in Whitespace THEN TrimStart(Tail(s)) ELSE s

RECURSIVE TrimEnd(_)
TrimEnd(s) == IF s # <<>> /\ Last(s) \in Whitespace THEN TrimEnd(DropLast(s)) ELSE s

Trim(s) == TrimEnd(TrimStart(s))

\* Range::from_str of day02
RangeFromStr(s) ==
    LET parts == SplitStr(Trim(s), <<"-">>)
    IN  IF Len(parts) # 2 THEN Err("Invalid range format", s)
        ELSE LET rangeStart == IntFromStr(parts[1], FALSE)
                 rangeEnd == IntFromStr(parts[2], FALSE)
             IN  IF IsErr(rangeStart) THEN Err("Invalid start value", parts[1])
                 ELSE IF IsErr(rangeEnd) THEN Err("Invalid end value", parts[2])
                 ELSE Ok(<<Unwrap(rangeStart), Unwrap(rangeEnd)>>)

\* collect::<Result<Vec<_>, _>>() over already computed items: the first Err, or
\* the Vec of all values
RECURSIVE CollectResults(_)
CollectResults(rs) ==
    IF rs = <<>> THEN Ok(<<>>)
    ELSE IF IsErr(rs[1]) THEN rs[1]
    ELSE LET more == CollectResults(Tail(rs))
         IN  IF IsErr(more) THEN more ELSE Ok(<<Unwrap(rs[1])>> \o Unwrap(more))

\* the closure of test_parse_with_sections, and the closure of day02's main
WholeParsers == {"sections", "ranges"}

ParseWhole(p, text) ==
    CASE p = "sections" -> Ok(SplitStr(text, <<LF, LF>>))
      [] p = "ranges" ->
            LET parts == SplitStr(text, <<",">>)
            IN  CollectResults([i \in 1..Len(parts) |-> RangeFromStr(parts[i])])

----------------------------------------------------------------------------
(* The loader: one call at a time, against one path *)

ParseLinesCalls == {<<"parse_lines", c>> : c \in {"String", "i32"}}
ParseLinesWithCalls == {<<"parse_lines_with", "Turn">>}
ParseWithCalls == {<<"parse_with", p>> : p \in WholeParsers}
ReadInputCalls == {<<"read_input", "none">>}
Calls == ParseLinesCalls \cup ParseLinesWithCalls \cup ParseWithCalls \cup ReadInputCalls

LineOps == {"parse_lines", "parse_lines_with"}

LoaderInit ==
    /\ file = NoFile
    /\ pc = "idle"
    /\ op = "none"
    /\ conv = "none"
    /\ content = <<>>
    /\ rest = <<>>
    /\ out = <<>>
    /\ result = None
    /\ reads = 0
    /\ applied = <<>>
    /\ lastFailed = FALSE

(* The files the calls find: written and removed between calls, as the tests do *)

CreateFile ==
    /\ pc = "idle"
    /\ file # TextFile(<<>>)
    /\ file' = TextFile(<<>>)
    /\ UNCHANGED <<pc, op, conv, content, rest, out, result, reads, applied, lastFailed, notLoader>>

WriteChar(c) ==
    /\ pc = "idle"
    /\ file.exists /\ file.utf8
    /\ Len(file.data) < MaxLen
    /\ file' = TextFile(Append(file.data, c))
    /\ UNCHANGED <<pc, op, conv, content, rest, out, result, reads, applied, lastFailed, notLoader>>

WriteInvalidBytes ==
    /\ pc = "idle"
    /\ file # BadUtf8
    /\ file' = BadUtf8
    /\ UNCHANGED <<pc, op, conv, content, rest, out, result, reads, applied, lastFailed, notLoader>>

RemoveFile ==
    /\ pc = "idle"
    /\ file.exists
    /\ file' = NoFile
    /\ UNCHANGED <<pc, op, conv, content, rest, out, result, reads, applied, lastFailed, notLoader>>

(* A call *)

Call(o, c) ==
    /\ pc = "idle"
    /\ <<o, c>> \in Calls
    /\ pc' = "read"
    /\ op' = o
    /\ conv' = c
    /\ UNCHANGED <<file, content, rest, out, result, reads, applied, lastFailed, notLoader>>

\* mutant: a failed read is tried again
OnReadErrorRetry == "read"

\* `?` on the Err of fs::read_to_string returns it from the function
OnReadError == "done"

\* let content = fs::read_to_string(path)?;  then content.lines()
ReadForLines ==
    /\ pc = "read"
    /\ op \in LineOps
    /\ reads' = reads + 1
    /\ LET r == ReadToString(file)
       IN  IF IsErr(r)
           THEN /\ result' = r
                /\ pc' = OnReadError
                /\ UNCHANGED <<content, rest>>
           ELSE /\ content' = Unwrap(r)
                /\ rest' = LinesIter(Unwrap(r))
                /\ pc' = "lines"
                /\ UNCHANGED result
    /\ UNCHANGED <<file, op, conv, out, applied, lastFailed, notLoader>>

\* let content = fs::read_to_string(path)?;  of parse_with
ReadForParser ==
    /\ pc = "read"
    /\ op = "parse_with"
    /\ reads' = reads + 1
    /\ LET r == ReadToString(file)
       IN  IF IsErr(r)
           THEN /\ result' = r
                /\ pc' = OnReadError
                /\ UNCHANGED content
           ELSE /\ content' = Unwrap(r)
                /\ pc' = "whole"
                /\ UNCHANGED result
    /\ UNCHANGED <<file, op, conv, rest, out, applied, lastFailed, notLoader>>

\* mutant: the text comes back without its trailing whitespace
ReadInputResultTrimmed(f) ==
    LET r == ReadToString(f) IN IF IsErr(r) THEN r ELSE Ok(TrimEnd(Unwrap(r)))

\* Ok(fs::read_to_string(path)?)
ReadInputResult(f) ==
    LET r == ReadToString(f) IN IF IsErr(r) THEN r ELSE Ok(Unwrap(r))

ReadInput ==
    /\ pc = "read"
    /\ op = "read_input"
    /\ reads' = reads + 1
    /\ result' = ReadInputResult(file)
    /\ pc' = IF IsErr(ReadToString(file)) THEN OnReadError ELSE "done"
    /\ UNCHANGED <<file, op, conv, content, rest, out, applied, lastFailed, notLoader>>

\* mutant: the first failing line ends the iteration and the values collected so
\* far are returned (take_while)
ShuntTruncate(vec, r) ==
    IF IsErr(r) THEN [stop |-> TRUE, vec |-> vec, res |-> Ok(vec)]
    ELSE [stop |-> FALSE, vec |-> Append(vec, Unwrap(r)), res |-> None]

\* mutant: a line that fails to convert is left out (filter_map)
ShuntSkip(vec, r) ==
    IF IsErr(r) THEN [stop |-> FALSE, vec |-> vec, res |-> None]
    ELSE [stop |-> FALSE, vec |-> Append(vec, Unwrap(r)), res |-> None]

\* mutant: the values are collected in reverse
ShuntReversed(vec, r) ==
    IF IsErr(r) THEN [stop |-> TRUE, vec |-> vec, res |-> r]
    ELSE [stop |-> FALSE, vec |-> <<Unwrap(r)>> \o vec, res |-> None]

\* collect() into Result<Vec<T>, E>: an Err item ends the iteration and is the
\* result; an Ok item is pushed
Shunt(vec, r) ==
    IF IsErr(r) THEN [stop |-> TRUE, vec |-> vec, res |-> r]
    ELSE [stop |-> FALSE, vec |-> Append(vec, Unwrap(r)), res |-> None]

\* one item of content.lines().map(converter), taken by collect()
NextLine ==
    /\ pc = "lines"
    /\ rest # <<>>
    /\ LET line == StripTerminator(NextChunk(rest))
           s == Shunt(out, Convert(conv, line))
       IN  /\ applied' = Append(applied, line)
           /\ out' = s.vec
           /\ IF s.stop
              THEN /\ result' = s.res
                   /\ pc' = "done"
                   /\ UNCHANGED rest
              ELSE /\ rest' = AfterChunk(rest)
                   /\ UNCHANGED <<result, pc>>
    /\ UNCHANGED <<file, op, conv, content, reads, lastFailed, notLoader>>

\* the iterator is exhausted: collect() returns the Vec
CollectDone ==
    /\ pc = "lines"
    /\ rest = <<>>
    /\ result' = Ok(out)
    /\ pc' = "done"
    /\ UNCHANGED <<file, op, conv, content, rest, out, reads, applied, lastFailed, notLoader>>

\* mutant: the parser is handed the content without its final line break
ParserInputChomped(c) == IF c # <<>> /\ Last(c) = LF THEN DropLast(c) ELSE c

\* parser(&content)
ParserInput(c) == c

CallParser ==
    /\ pc = "whole"
    /\ applied' = Append(applied, ParserInput(content))
    /\ result' = ParseWhole(conv, ParserInput(content))
    /\ pc' = "done"
    /\ UNCHANGED <<file, op, conv, content, rest, out, reads, lastFailed, notLoader>>

\* the call returns; its locals are dropped
Return ==
    /\ pc = "done"
    /\ pc' = "idle"
    /\ lastFailed' = IsErr(result)
    /\ op' = "none"
    /\ conv' = "none"
    /\ content' = <<>>
    /\ rest' = <<>>
    /\ out' = <<>>
    /\ result' = None
    /\ reads' = 0
    /\ applied' = <<>>
    /\ UNCHANGED <<file, notLoader>>

LoaderNext ==
    \/ CreateFile
    \/ \E c \in Alphabet : WriteChar(c)
    \/ WriteInvalidBytes
    \/ RemoveFile
    \/ \E o \in {"parse_lines", "parse_lines_with", "parse_with", "read_input"},
          c \in LineConverters \cup WholeParsers \cup {"none"} : Call(o, c)
    \/ ReadForLines
    \/ ReadForParser
    \/ ReadInput
    \/ NextLine
    \/ CollectDone
    \/ CallParser
    \/ Return

----------------------------------------------------------------------------
(* usize: 64 bits.  A usize value is kept as its decimal digits, most        *)
(* significant first and without leading zeros (0 is the empty sequence),   *)
(* so that acc * 10 + digit is exact up to and beyond 2^64.                  *)

\* usize::MAX = 2^64 - 1
UsizeMax == <<1, 8, 4, 4, 6, 7, 4, 4, 0, 7, 3, 7, 0, 9, 5, 5, 1, 6, 1, 5>>

\* 2^64
UsizeModulus == <<1, 8, 4, 4, 6, 7, 4, 4, 0, 7, 3, 7, 0, 9, 5, 5, 1, 6, 1, 6>>

RECURSIVE Canon(_)
Canon(n) == IF n # <<>> /\ n[1] = 0 THEN Canon(Tail(n)) ELSE n

\* a < b for digit sequences of one length
LexLess(a, b) ==
    \E i \in 1..Len(a) : a[i] < b[i] /\ \A j \in 1..(i - 1) : a[j] = b[j]

\* a <= b for canonical numbers
DecLE(a, b) == Len(a) < Len(b) \/ (Len(a) = Len(b) /\ ~LexLess(b, a))

RECURSIVE PadLeft(_, _)
PadLeft(n, len) == IF Len(n) < len THEN PadLeft(<<0>> \o n, len) ELSE n

\* a - b - borrow for digit sequences of one length, a >= b
RECURSIVE SubDigits(_, _, _)
SubDigits(a, b, borrow) ==
    IF a = <<>> THEN <<>>
    ELSE LET d == Last(a) - Last(b) - borrow
         IN  SubDigits(DropLast(a), DropLast(b), IF d < 0 THEN 1 ELSE 0)
                 \o <<IF d < 0 THEN d + 10 ELSE d>>

DecSub(a, b) == Canon(SubDigits(a, PadLeft(b, Len(a)), 0))

\* n mod 2^64
RECURSIVE WrapUsize(_)
WrapUsize(n) == IF DecLE(n, UsizeMax) THEN n ELSE WrapUsize(DecSub(n, UsizeModulus))

Returned(n) == <<"return", n>>
Panicked == <<"panic", <<>>>>

\* the build profiles: overflow checks on (dev) or off (release)
Profiles == {"dev", "release"}

\* result.iter().fold(0, |acc, &digit| acc * 10 + digit as usize): with overflow
\* checks the first result above usize::MAX panics, without them it wraps
RECURSIVE FoldDigits(_, _, _)
FoldDigits(accum, ds, profile) ==
    IF ds = <<>> THEN Returned(accum)
    ELSE LET exact == Canon(accum \o <<Head(ds)>>)
         IN  IF DecLE(exact, UsizeMax) THEN FoldDigits(exact, Tail(ds), profile)
             ELSE IF profile = "dev" THEN Panicked
             ELSE FoldDigits(WrapUsize(exact), Tail(ds), profile)

----------------------------------------------------------------------------
(* day03: find_largest_k_digit_number *)

DigitValues == 0..MaxDigit

SeqsUpTo(S, n) == UNION {[1..m -> S] : m \in 0..n}

\* a block repeated up to length n
Repeated(block, n) == [i \in 1..n |-> block[((i - 1) % Len(block)) + 1]]

\* the calls tried: every short bank with every k up to one past its length, and
\* the long repeated banks with k near their length
ShortInputs ==
    {<<b, kk>> : b \in SeqsUpTo(DigitValues, MaxBank), kk \in 0..(MaxBank + 1)}

LongInputs ==
    {<<Repeated(block, n), n - s>> :
        block \in SeqsUpTo(DigitValues, 2) \ {<<>>},
        n \in (MaxBank + 1)..MaxLongBank,
        s \in 0..LongSlack}

Day03Init ==
    /\ \E in \in ShortInputs \cup LongInputs :
          /\ digits = in[1]
          /\ k = in[2]
    /\ dpc = "start"
    /\ position = 0
    /\ start = 0
    /\ selected = <<>>
    /\ answer = None

\* mutant: the guard does not compare k with the length
InvalidInputNoUpper(ds, kk) == kk = 0 \/ ds = <<>>

\* if k == 0 || digits.is_empty() || k > digits.len() { return 0; }
InvalidInput(ds, kk) == kk = 0 \/ ds = <<>> \/ kk > Len(ds)

KGuard ==
    /\ dpc = "start"
    /\ IF InvalidInput(digits, k)
       THEN /\ answer' = Returned(<<>>)
            /\ dpc' = "done"
       ELSE /\ dpc' = "select"
            /\ UNCHANGED answer
    /\ UNCHANGED <<digits, k, position, start, selected, notDay03>>

\* let remaining = k - position - 1; let search_end = digits.len() - remaining;
SearchEnd(ds, kk, pos) == Len(ds) - (kk - pos - 1)

\* digits[start..search_end]
SearchRange(ds, from, to) == SubSeq(ds, from + 1, to)

\* .iter().max()
MaxOf(range) == CHOOSE d \in {range[i] : i \in 1..Len(range)} :
                    \A i \in 1..Len(range) : range[i] <= d

\* .iter().position(|&d| d == max_digit), zero-based
PositionOf(range, d) ==
    (CHOOSE i \in 1..Len(range) : range[i] = d /\ \A j \in 1..(i - 1) : range[j] # d) - 1

\* one iteration of `for position in 0..k`
KSelect ==
    /\ dpc = "select"
    /\ position < k
    /\ LET search_end == SearchEnd(digits, k, position)
           range == SearchRange(digits, start, search_end)
       IN  IF start > search_end \/ range = <<>>
           THEN \* the slice index or the expect() panics
                /\ answer' = Panicked
                /\ dpc' = "done"
                /\ UNCHANGED <<position, start, selected>>
           ELSE LET max_digit == MaxOf(range)
                    max_idx == PositionOf(range, max_digit)
                IN  /\ selected' = Append(selected, max_digit)
                    /\ start' = start + max_idx + 1
                    /\ position' = position + 1
                    /\ UNCHANGED <<answer, dpc>>
    /\ UNCHANGED <<digits, k, notDay03>>

\* the loop is over: the selected digits are folded into the number returned
KFold ==
    /\ dpc = "select"
    /\ position = k
    /\ \E profile \in Profiles : answer' = FoldDigits(<<>>, selected, profile)
    /\ dpc' = "done"
    /\ UNCHANGED <<digits, k, position, start, selected, notDay03>>

Day03Next ==
    \/ KGuard
    \/ KSelect
    \/ KFold

\* the day crates are not running
Day03Parked ==
    /\ digits = <<>>
    /\ k = 0
    /\ dpc = "parked"
    /\ position = 0
    /\ start = 0
    /\ selected = <<>>
    /\ answer = None

\* the loader is not running
LoaderParked == LoaderInit

----------------------------------------------------------------------------
(* day03: find_largest_two_digit_number *)

TwoInit ==
    /\ bank \in SeqsUpTo(DigitValues, MaxBank)
    /\ tpc = "start"
    /\ seen = 0
    /\ max_two_digit = 0
    /\ max_first_digit = 0
    /\ two_answer = None

TwoParked ==
    /\ bank = <<>>
    /\ tpc = "parked"
    /\ seen = 0
    /\ max_two_digit = 0
    /\ max_first_digit = 0
    /\ two_answer = None

\* if digits.len() < 2 { return 0; }
TwoGuard ==
    /\ tpc = "start"
    /\ IF Len(bank) < 2
       THEN /\ two_answer' = 0
            /\ tpc' = "done"
       ELSE /\ tpc' = "loop"
            /\ UNCHANGED two_answer
    /\ UNCHANGED <<bank, seen, max_two_digit, max_first_digit, notTwo>>

Max2(a, b) == IF a >= b THEN a ELSE b

\* mutant: the best first digit is updated before the number is formed, so a
\* digit is paired with itself
FirstDigitForUpdated(best, digit) == Max2(best, digit)

\* the first digit the number is formed with: the best one seen before `digit`
FirstDigitFor(best, digit) == best

\* one iteration of `for &digit in digits`
TwoStep ==
    /\ tpc = "loop"
    /\ seen < Len(bank)
    /\ LET digit == bank[seen + 1]
           two_digit == FirstDigitFor(max_first_digit, digit) * 10 + digit
       IN  /\ max_two_digit' = Max2(max_two_digit, two_digit)
           /\ max_first_digit' = Max2(max_first_digit, digit)
    /\ seen' = seen + 1
    /\ UNCHANGED <<bank, tpc, two_answer, notTwo>>

\* the loop is over: max_two_digit is returned
TwoReturn ==
    /\ tpc = "loop"
    /\ seen = Len(bank)
    /\ two_answer' = max_two_digit
    /\ tpc' = "done"
    /\ UNCHANGED <<bank, seen, max_two_digit, max_first_digit, notTwo>>

TwoNext ==
    \/ TwoGuard
    \/ TwoStep
    \/ TwoReturn

----------------------------------------------------------------------------
(* day04: find_accessible and the removal loop of part_2 *)

\* the (row, column) pairs parse_input yields for a grid of GridSide lines of
\* GridSide characters
GridCells == (0..(GridSide - 1)) \X (0..(GridSide - 1))

DIRECTIONS ==
    << <<-1, -1>>, <<-1, 0>>, <<-1, 1>>,
       <<0, -1>>,             <<0, 1>>,
       <<1, -1>>,  <<1, 0>>,  <<1, 1>> >>

\* DIRECTIONS.iter().filter(|&&(dr, dc)| input.contains(&(row + dr, col + dc))).count()
NeighborCount(set, pos) ==
    Cardinality({i \in 1..Len(DIRECTIONS) :
                    <<pos[1] + DIRECTIONS[i][1], pos[2] + DIRECTIONS[i][2]>> \in set})

\* mutant: the boundary is included
IsAccessibleInclusive(count) == count <= 4

\* count < 4
IsAccessible(count) == count < 4

\* input.iter().filter(..).copied().collect(): every position of the set is
\* visited once, so the Vec holds each accessible position once
find_accessible(set) == {pos \in set : IsAccessible(NeighborCount(set, pos))}

\* mutant: the predicate of retain() is inverted
RetainAccessible(set, found) == set \cap found

\* input.retain(|pos| !acc.contains(pos))
Retain(set, found) == set \ found

\* the position (1, 1) with its eight neighbours
Block == {<<1, 1>>} \cup {<<1 + DIRECTIONS[i][1], 1 + DIRECTIONS[i][2]>> : i \in 1..Len(DIRECTIONS)}

\* the sets of at most n positions of the grid
RECURSIVE HolesUpTo(_)
HolesUpTo(n) ==
    IF n = 0 THEN {{}}
    ELSE LET fewer == HolesUpTo(n - 1)
         IN  fewer \cup {h \cup {c} : h \in fewer, c \in GridCells}

Day04Inputs == (SUBSET Block) \cup {GridCells \ h : h \in HolesUpTo(MaxHoles)}

Day04Init ==
    /\ input \in Day04Inputs
    /\ initial = input
    /\ gpc = "loop"
    /\ acc = {}
    /\ total_removed = 0

Day04Parked ==
    /\ input = {}
    /\ initial = {}
    /\ gpc = "parked"
    /\ acc = {}
    /\ total_removed = 0

\* let acc = find_accessible(&input);
FindAccessible ==
    /\ gpc = "loop"
    /\ acc' = find_accessible(input)
    /\ gpc' = "found"
    /\ UNCHANGED <<input, total_removed, initial, notDay04>>

\* if acc.is_empty() { break; }
Break ==
    /\ gpc = "found"
    /\ acc = {}
    /\ gpc' = "done"
    /\ UNCHANGED <<input, acc, total_removed, initial, notDay04>>

\* total_removed += acc.len(); input.retain(..), and the loop goes round
RemoveAccessible ==
    /\ gpc = "found"
    /\ acc # {}
    /\ total_removed' = total_removed + Cardinality(acc)
    /\ input' = Retain(input, acc)
    /\ gpc' = "loop"
    /\ UNCHANGED <<acc, initial, notDay04>>

Day04Next ==
    \/ FindAccessible
    \/ Break
    \/ RemoveAccessible

----------------------------------------------------------------------------
(* day02: has_repeating_pattern *)

\* 10usize.pow(e)
RECURSIVE Pow10(_)
Pow10(e) == IF e = 0 THEN 1 ELSE 10 * Pow10(e - 1)

\* v.ilog10() for v > 0
RECURSIVE ILog10(_)
ILog10(v) == IF v < 10 THEN 0 ELSE 1 + ILog10(v \div 10)

\* let num_digits = num.ilog10() + 1
NumDigits(v) == ILog10(v) + 1

\* mutant: chunk sizes up to the whole digit count are tried
ChunkLimitWhole(num_digits) == num_digits

\* the last chunk size tried: 1..=num_digits / 2
ChunkLimit(num_digits) == num_digits \div 2

\* the number a sequence of decimal digits writes
RECURSIVE NumberOf(_)
NumberOf(ds) == IF ds = <<>> THEN 0 ELSE 10 * NumberOf(DropLast(ds)) + Last(ds)

Day02Inputs ==
    (0..MaxNum) \cup {NumberOf(ds) : ds \in SeqsUpTo(0..PatternDigit, PatternLen)}

Day02Init ==
    /\ num \in Day02Inputs
    /\ hpc = "start"
    /\ chunk_size = 0
    /\ first_chunk = 0
    /\ temp = 0
    /\ pattern = FALSE

Day02Parked ==
    /\ num = 0
    /\ hpc = "parked"
    /\ chunk_size = 0
    /\ first_chunk = 0
    /\ temp = 0
    /\ pattern = FALSE

\* let num_digits = num.ilog10() + 1: ilog10 panics on zero; otherwise the
\* for loop starts at chunk_size = 1
PatternEnter ==
    /\ hpc = "start"
    /\ IF num = 0
       THEN hpc' = "panic" /\ UNCHANGED chunk_size
       ELSE hpc' = "chunk" /\ chunk_size' = 1
    /\ UNCHANGED <<num, first_chunk, temp, pattern>>
    /\ UNCHANGED notDay02

\* if num_digits % chunk_size != 0 { continue; }
PatternSkip ==
    /\ hpc = "chunk"
    /\ chunk_size <= ChunkLimit(NumDigits(num))
    /\ NumDigits(num) % chunk_size # 0
    /\ chunk_size' = chunk_size + 1
    /\ UNCHANGED <<num, hpc, first_chunk, temp, pattern>>
    /\ UNCHANGED notDay02

\* let divisor = ..; let first_chunk = num % divisor; let mut temp = num / divisor
PatternChunk ==
    /\ hpc = "chunk"
    /\ chunk_size <= ChunkLimit(NumDigits(num))
    /\ NumDigits(num) % chunk_size = 0
    /\ first_chunk' = num % Pow10(chunk_size)
    /\ temp' = num \div Pow10(chunk_size)
    /\ hpc' = "while"
    /\ UNCHANGED <<num, chunk_size, pattern>>
    /\ UNCHANGED notDay02

\* while temp > 0: the chunk differs: all_match = false; break; next chunk size
PatternMismatch ==
    /\ hpc = "while"
    /\ temp > 0
    /\ temp % Pow10(chunk_size) # first_chunk
    /\ chunk_size' = chunk_size + 1
    /\ hpc' = "chunk"
    /\ UNCHANGED <<num, first_chunk, temp, pattern>>
    /\ UNCHANGED notDay02

\* while temp > 0: the chunk matches: temp /= divisor
PatternMatch ==
    /\ hpc = "while"
    /\ temp > 0
    /\ temp % Pow10(chunk_size) = first_chunk
    /\ temp' = temp \div Pow10(chunk_size)
    /\ UNCHANGED <<num, hpc, chunk_size, first_chunk, pattern>>
    /\ UNCHANGED notDay02

\* the while loop ended with all_match still true: return true
PatternReturnTrue ==
    /\ hpc = "while"
    /\ temp = 0
    /\ pattern' = TRUE
    /\ hpc' = "done"
    /\ UNCHANGED <<num, chunk_size, first_chunk, temp>>
    /\ UNCHANGED notDay02

\* the for loop is exhausted: false
PatternReturnFalse ==
    /\ hpc = "chunk"
    /\ chunk_size > ChunkLimit(NumDigits(num))
    /\ pattern' = FALSE
    /\ hpc' = "done"
    /\ UNCHANGED <<num, chunk_size, first_chunk, temp>>
    /\ UNCHANGED notDay02

Day02Next ==
    \/ PatternEnter
    \/ PatternSkip
    \/ PatternChunk
    \/ PatternMismatch
    \/ PatternMatch
    \/ PatternReturnTrue
    \/ PatternReturnFalse

----------------------------------------------------------------------------
(* The specifications: one per crate function, the others not running *)

Init == LoaderInit /\ Day03Parked /\ TwoParked /\ Day04Parked /\ Day02Parked
Next == LoaderNext
Spec == Init /\ [][Next]_vars

InitDay03 == LoaderParked /\ Day03Init /\ TwoParked /\ Day04Parked /\ Day02Parked
NextDay03 == Day03Next
SpecDay03 == InitDay03 /\ [][NextDay03]_vars

InitTwo == LoaderParked /\ Day03Parked /\ TwoInit /\ Day04Parked /\ Day02Parked
NextTwo == TwoNext
SpecTwo == InitTwo /\ [][NextTwo]_vars

InitDay04 == LoaderParked /\ Day03Parked /\ TwoParked /\ Day04Init /\ Day02Parked
NextDay04 == Day04Next
SpecDay04 == InitDay04 /\ [][NextDay04]_vars

\* part_2 is straight-line code: a step that can be taken is taken
SpecDay04Fair == SpecDay04 /\ WF_vars(NextDay04)

InitDay02 == LoaderParked /\ Day03Parked /\ TwoParked /\ Day04Parked /\ Day02Init
NextDay02 == Day02Next
SpecDay02 == InitDay02 /\ [][NextDay02]_vars

----------------------------------------------------------------------------
(* What the loader claims are stated with *)

Readable(f) == f.exists /\ f.utf8

Converted(c, text) == [i \in 1..Len(Lines(text)) |-> Convert(c, Lines(text)[i])]

AllConvert(c, text) == \A i \in 1..Len(Lines(text)) : IsOk(Converted(c, text)[i])

FirstFailing(c, text) ==
    CHOOSE i \in 1..Len(Lines(text)) :
        /\ IsErr(Converted(c, text)[i])
        /\ \A j \in 1..(i - 1) : IsOk(Converted(c, text)[j])

\* the result of converting every line of a text and collecting
LinesResult(c, text) == CollectResults(Converted(c, text))

IsPrefix(s, t) == Len(s) <= Len(t) /\ SubSeq(t, 1, Len(s)) = s

NumLF(s) == Cardinality({i \in 1..Len(s) : s[i] = LF})

RECURSIVE TrimTrailingLF(_)
TrimTrailingLF(s) == IF s # <<>> /\ Last(s) = LF THEN TrimTrailingLF(DropLast(s)) ELSE s

IoKinds == {"io::NotFound", "io::InvalidData"}

\* the result of a call as a function of its inputs alone
CallResult(o, c, f) ==
    IF ~Readable(f) THEN ReadToString(f)
    ELSE CASE o \in LineOps -> LinesResult(c, f.data)
           [] o = "parse_with" -> ParseWhole(c, f.data)
           [] o = "read_input" -> Ok(f.data)

----------------------------------------------------------------------------
(* Claims about the loader *)

\* C1: on a readable file whose N lines all convert, parse_lines and
\* parse_lines_with return Ok of exactly N elements, the i-th being the
\* converter applied to the i-th line.
C1_OrderedConversion ==
    (pc = "done" /\ op \in LineOps /\ Readable(file) /\ AllConvert(conv, file.data))
        => /\ IsOk(result)
           /\ Len(Unwrap(result)) = Len(Lines(file.data))
           /\ \A i \in 1..Len(Lines(file.data)) :
                  Unwrap(result)[i] = Unwrap(Convert(conv, Lines(file.data)[i]))

C1_Witness ==
    /\ pc = "done" /\ op = "parse_lines" /\ conv = "i32"
    /\ file = TextFile(<<"1", LF, "1", "1", LF>>)
    /\ result = Ok(<<1, 11>>)

\* C2: if the converter fails on at least one line, the call returns a failure
\* and no sequence, wherever the failing line is.
C2_NoPartialResult ==
    (pc = "done" /\ op \in LineOps /\ Readable(file) /\ ~AllConvert(conv, file.data))
        => /\ IsErr(result)
           /\ Unwrap(result)[1] \notin IoKinds

C2_Witness ==
    /\ pc = "done" /\ op = "parse_lines" /\ conv = "i32"
    /\ file = TextFile(<<"1", LF, "R", LF, "1">>)
    /\ IsErr(result)

\* C3: lines are converted in file order, the converter is never applied to a
\* line after the first one it fails on, and the error returned is that line's.
C3_FailFast ==
    (pc \in {"lines", "done"} /\ op \in LineOps /\ Readable(file))
        => /\ IsPrefix(applied, Lines(file.data))
           /\ \A i \in 1..(Len(applied) - 1) : IsOk(Convert(conv, applied[i]))
           /\ (pc = "done" /\ ~AllConvert(conv, file.data))
                  => /\ Len(applied) = FirstFailing(conv, file.data)
                     /\ result = Convert(conv, Lines(file.data)[FirstFailing(conv, file.data)])

C3_Witness ==
    /\ pc = "done" /\ op = "parse_lines_with" /\ conv = "Turn"
    /\ file = TextFile(<<"R", "1", LF, LF, "1">>)
    /\ applied = <<<<"R", "1">>, <<>>>>
    /\ result = Err("Empty string cannot be parsed as Turn", <<>>)

\* C4: on a path that does not exist or cannot be read as text, each of the four
\* functions returns an I/O failure and never invokes the converter or parser.
C4_MissingFileIsIoFailure ==
    /\ (pc = "done" /\ ~Readable(file))
          => /\ IsErr(result)
             /\ Unwrap(result)[1] \in IoKinds
             /\ applied = <<>>
    /\ ~Readable(file) => pc \notin {"lines", "whole"}

C4_Witness ==
    /\ pc = "done" /\ op = "parse_with" /\ file = NoFile
    /\ result = Err("io::NotFound", <<>>)

\* C5: on an existing empty file parse_lines returns Ok of the empty sequence
\* without calling the converter, and read_input returns Ok of the empty string.
C5_EmptyFile ==
    (pc = "done" /\ file = TextFile(<<>>))
        => /\ op = "parse_lines" => (result = Ok(<<>>) /\ applied = <<>>)
           /\ op = "read_input" => result = Ok(<<>>)

C5_Witness ==
    /\ pc = "done" /\ op = "parse_lines" /\ conv = "i32"
    /\ file = TextFile(<<>>)
    /\ result = Ok(<<>>)

\* C6: parse_with returns what the parser returns on the string read_input
\* returns (the read failure if the read fails), and the parser is invoked once,
\* on the entire content with all its line breaks.
C6_ParseWithIsReadThenParse ==
    (pc = "done" /\ op = "parse_with")
        => /\ result = IF IsErr(ReadInputResult(file)) THEN ReadInputResult(file)
                       ELSE ParseWhole(conv, Unwrap(ReadInputResult(file)))
           /\ Readable(file) => applied = <<file.data>>

C6_Witness ==
    /\ pc = "done" /\ op = "parse_with" /\ conv = "sections"
    /\ file = TextFile(<<"1", LF, LF, "R", LF>>)
    /\ result = Ok(<<<<"1">>, <<"R", LF>>>>)

\* C7 as stated: content ending in one or more line breaks yields the same
\* sequence as the content without them.
C7_TrailingBreaksIgnored ==
    LET c == TrimTrailingLF(file.data)
    IN  (pc = "done" /\ op \in LineOps /\ Readable(file)
            /\ c # file.data /\ c # <<>> /\ Last(c) # CR)
            => result = LinesResult(conv, c)

\* C7 (amended): only the file's final line terminator is not a line of its own.
\* The sequence has one element per line feed plus one for a non-empty
\* unterminated last line, and content made of a text that does not end in a
\* line feed or carriage return followed by one terminator ("\n" or "\r\n")
\* yields what that text yields.
C7_FinalTerminatorOnly ==
    (pc = "done" /\ op \in LineOps /\ Readable(file))
        => /\ IsOk(result) =>
                  Len(Unwrap(result)) = NumLF(file.data)
                      + (IF file.data # <<>> /\ Last(file.data) # LF THEN 1 ELSE 0)
           /\ \A n \in 1..2 :
                  LET d == file.data
                      c == SubSeq(d, 1, Len(d) - n)
                      term == SubSeq(d, Len(d) - n + 1, Len(d))
                  IN  (Len(d) > n /\ term = SubSeq(<<CR, LF>>, 3 - n, 2)
                          /\ Last(c) \notin {LF, CR})
                          => result = LinesResult(conv, c)

C7_Witness ==
    /\ pc = "done" /\ op = "parse_lines" /\ conv = "String"
    /\ file = TextFile(<<"1", LF, LF>>)
    /\ result = Ok(<<<<"1">>, <<>>>>)

\* C8: read_input returns exactly the file's text, trailing line breaks and
\* blank lines included.
C8_ReadInputUnchanged ==
    (pc = "done" /\ op = "read_input" /\ Readable(file)) => result = Ok(file.data)

C8_Witness ==
    /\ pc = "done" /\ op = "read_input"
    /\ file = TextFile(<<LF, "1", LF, LF>>)
    /\ result = Ok(<<LF, "1", LF, LF>>)

\* C9: every call reads the file exactly once on every path, never again after
\* a failure, and its result is a function of its own inputs whatever the
\* earlier calls did.
C9_SingleReadStateless ==
    /\ reads <= 1
    /\ pc \in {"lines", "whole", "done"} => reads = 1
    /\ pc = "done" => result = CallResult(op, conv, file)

C9_Witness ==
    /\ pc = "done" /\ lastFailed /\ reads = 1
    /\ op = "parse_lines" /\ conv = "i32"
    /\ file = TextFile(<<"1">>)
    /\ result = Ok(<<1>>)

----------------------------------------------------------------------------
(* Claims about day03 *)

\* the subsequences of s of length n, as digit sequences
RECURSIVE Subsequences(_, _)
Subsequences(s, n) ==
    IF n = 0 THEN {<<>>}
    ELSE IF Len(s) < n THEN {}
    ELSE {<<Head(s)>> \o r : r \in Subsequences(Tail(s), n - 1)}
             \cup Subsequences(Tail(s), n)

\* the largest number among them: all have n digits, so the largest sequence
MaxSubsequence(s, n) ==
    LET subs == Subsequences(s, n)
    IN  CHOOSE m \in subs : \A r \in subs : ~LexLess(m, r)

\* C10: for every bank and every k with 1 <= k <= length,
\* find_largest_k_digit_number returns the largest number that k digits of the
\* bank, taken in their order, spell.
C10_LargestKDigitNumber ==
    (dpc = "done" /\ 1 <= k /\ k <= Len(digits))
        => answer = Returned(Canon(MaxSubsequence(digits, k)))

\* a call whose largest number is above usize::MAX
C10_OverflowReached ==
    /\ dpc = "done" /\ 1 <= k /\ k <= Len(digits)
    /\ ~DecLE(Canon(MaxSubsequence(digits, k)), UsizeMax)

\* the same, for the results a usize holds
C10_LargestWhenRepresentable ==
    LET largest == Canon(MaxSubsequence(digits, k))
    IN  (dpc = "done" /\ 1 <= k /\ k <= Len(digits) /\ DecLE(largest, UsizeMax))
            => answer = Returned(largest)

\* C11: find_largest_k_digit_number returns 0, and does not panic, whenever k is
\* 0, the bank is empty, or k is greater than the bank's length.
C11_InvalidInputReturnsZero ==
    /\ (dpc = "done" /\ (k = 0 \/ digits = <<>> \/ k > Len(digits)))
          => answer = Returned(<<>>)
    /\ (k = 0 \/ digits = <<>> \/ k > Len(digits)) => dpc \in {"start", "done"}

C11_Witness ==
    /\ dpc = "done"
    /\ digits = <<1, 2, 3>> /\ k = 5
    /\ answer = Returned(<<>>)

\* C12: for a bank of two or more digits find_largest_two_digit_number returns
\* the largest 10 * d[i] + d[j] over the index pairs i < j; for a bank of none or
\* one it returns 0.
C12_LargestTwoDigitNumber ==
    tpc = "done" =>
        IF Len(bank) >= 2
        THEN /\ \E i, j \in 1..Len(bank) : i < j /\ two_answer = 10 * bank[i] + bank[j]
             /\ \A i, j \in 1..Len(bank) : i < j => two_answer >= 10 * bank[i] + bank[j]
        ELSE two_answer = 0

C12_Witness ==
    /\ tpc = "done"
    /\ bank = <<1, 3, 3, 2>>
    /\ two_answer = 33

----------------------------------------------------------------------------
(* Claims about day04 *)

\* the eight cells around a position
Surrounding(pos) ==
    {q \in ((pos[1] - 1)..(pos[1] + 1)) \X ((pos[2] - 1)..(pos[2] + 1)) : q # pos}

NeighboursIn(set, pos) == Cardinality(Surrounding(pos) \cap set)

Accessible(set) == {pos \in set : NeighboursIn(set, pos) < 4}

\* C13: find_accessible returns exactly the positions of the set that have fewer
\* than 4 of their 8 surrounding cells in the set: one with 3 is returned, one
\* with 4 is not, and nothing outside the set is.
C13_FindAccessible ==
    gpc = "found" =>
        /\ acc \subseteq input
        /\ \A pos \in input : pos \in acc <=> NeighboursIn(input, pos) < 4

C13_Witness ==
    /\ gpc = "found"
    /\ \E pos \in input : NeighboursIn(input, pos) = 3 /\ pos \in acc
    /\ \E pos \in input : NeighboursIn(input, pos) = 4 /\ pos \notin acc

\* C14: the removal loop of part_2 ends; every round removes exactly the
\* positions accessible in the set as the round found it; after every round
\* total_removed plus the size of the remaining set is the initial size; and at
\* the exit every remaining position has at least 4 neighbours remaining.
C14_RemovalLoop ==
    /\ <>(gpc = "done")
    /\ [][(gpc = "found" /\ gpc' = "loop") => input' = input \ Accessible(input)]_vars
    /\ [](gpc \in {"loop", "done"}
            => total_removed + Cardinality(input) = Cardinality(initial))
    /\ [](gpc = "done" => \A pos \in input : NeighboursIn(input, pos) >= 4)

\* a loop that removed positions and left positions it cannot remove
C14_Witness ==
    /\ gpc = "done"
    /\ input # {}
    /\ total_removed > 0
    /\ total_removed + Cardinality(input) = Cardinality(initial)

----------------------------------------------------------------------------
(* C15 *)

\* the decimal digits of v > 0, most significant first
RECURSIVE DecimalDigits(_)
DecimalDigits(v) ==
    IF v < 10 THEN <<v>> ELSE Append(DecimalDigits(v \div 10), v % 10)

\* ds is its first b digits written Len(ds) / b times
BlockRepeats(ds, b) ==
    /\ Len(ds) % b = 0
    /\ \A i \in 1..Len(ds) : ds[i] = ds[((i - 1) % b) + 1]

\* one block of digits repeated two or more times
IsRepeatedBlock(ds) == \E b \in 1..(Len(ds) \div 2) : BlockRepeats(ds, b)

\* C15: for every positive num, has_repeating_pattern(num) returns, and returns
\* true exactly when the decimal digits of num are one block of digits repeated
\* two or more times; it returns false for single-digit numbers, 1213 and 12312
C15_RepeatingPattern ==
    /\ (num > 0 => hpc # "panic")
    /\ (hpc = "done" /\ num > 0) =>
          /\ pattern = IsRepeatedBlock(DecimalDigits(num))
          /\ (num < 10 \/ num \in {1213, 12312}) => pattern = FALSE

\* 121212 is found to repeat the block 12 after the block 1 was rejected
C15_Witness ==
    /\ hpc = "done"
    /\ num = 121212
    /\ chunk_size = 2
    /\ pattern = TRUE

====
